---- MODULE Spec2Model ----
(***************************************************************************)
(* Model of rig-cc: the run-command tool (Bash::run, src/src/tools.rs) and *)
(* the operator turn loop (main, src/src/main.rs).                         *)
(*                                                                         *)
(* Text handled by the command runner is a run-length encoded sequence of  *)
(* characters, <<[c |-> char, n |-> count], ...>>, kept canonical (no      *)
(* empty run, no two adjacent runs of the same character), so that outputs *)
(* around the 51200-byte cap can be represented.  A character is a one-    *)
(* character string (one byte in UTF-8) or one of the named multi-byte     *)
(* characters below.  Text handled by the turn loop is a plain sequence of *)
(* characters.                                                             *)
(***************************************************************************)
EXTENDS Integers, Sequences, FiniteSets, TLC

\* ------------------------------------------------------------------ bounds
Margin == 1          \* fill sizes range over MAX_OUTPUT_BYTES -/+ Margin
MaxExtraSecs == 1    \* a child runs at most this long past the threshold
MaxTurns == 2        \* engine calls per session
MaxEvents == 3       \* events the engine delivers per session

\* ------------------------------------------------------- program constants
MAX_OUTPUT_BYTES == 50 * 1024
WARNING_TIMEOUT_SECS == 60

\* --------------------------------------------------------------- characters
E_ACUTE == "U+00E9"      \* 2 bytes in UTF-8
EURO == "U+20AC"         \* 3 bytes
REPLACEMENT == "U+FFFD"  \* 3 bytes, what lossy decoding substitutes
GRIN == "U+1F600"        \* 4 bytes
BAD_BYTE == "0xFF"       \* a byte that is never part of valid UTF-8

len_utf8(c) ==
    CASE c = E_ACUTE -> 2
      [] c = EURO -> 3
      [] c = REPLACEMENT -> 3
      [] c = GRIN -> 4
      [] OTHER -> 1

\* ------------------------------------------------------ run-length strings
Run(c, n) == IF n = 0 THEN << >> ELSE << [c |-> c, n |-> n] >>

\* String::push_str
push_str(a, b) ==
    IF a = << >> THEN b
    ELSE IF b = << >> THEN a
    ELSE IF a[Len(a)].c = b[1].c
         THEN SubSeq(a, 1, Len(a) - 1)
              \o << [c |-> b[1].c, n |-> a[Len(a)].n + b[1].n] >>
              \o Tail(b)
         ELSE a \o b

\* String::push
push(a, c) == push_str(a, Run(c, 1))

RECURSIVE Lit(_)
\* a string literal, given as the tuple of its characters
Lit(chars) ==
    IF chars = << >> THEN << >>
    ELSE push(Lit(SubSeq(chars, 1, Len(chars) - 1)), chars[Len(chars)])

RECURSIVE len(_)
\* String::len, in bytes
len(s) == IF s = << >> THEN 0 ELSE len_utf8(s[1].c) * s[1].n + len(Tail(s))

is_empty(s) == len(s) = 0

RECURSIVE is_char_boundary(_, _)
\* str::is_char_boundary
is_char_boundary(s, index) ==
    IF index = 0 THEN TRUE
    ELSE IF s = << >> THEN FALSE
    ELSE LET w == len_utf8(s[1].c)
             bytes == w * s[1].n
         IN  IF index >= bytes THEN is_char_boundary(Tail(s), index - bytes)
             ELSE index % w = 0

RECURSIVE Prefix(_, _)
\* the first k bytes of s, k on a character boundary
Prefix(s, k) ==
    IF k = 0 \/ s = << >> THEN << >>
    ELSE LET w == len_utf8(s[1].c)
             bytes == w * s[1].n
         IN  IF k >= bytes THEN << s[1] >> \o Prefix(Tail(s), k - bytes)
             ELSE Run(s[1].c, k \div w)

\* String::pop
pop(s) ==
    IF s = << >> THEN s
    ELSE IF s[Len(s)].n = 1 THEN SubSeq(s, 1, Len(s) - 1)
    ELSE SubSeq(s, 1, Len(s) - 1) \o << [c |-> s[Len(s)].c, n |-> s[Len(s)].n - 1] >>

RECURSIVE PopToBoundary(_)
\* while !output.is_char_boundary(output.len()) { output.pop(); }
PopToBoundary(s) ==
    IF is_char_boundary(s, len(s)) THEN s ELSE PopToBoundary(pop(s))

Digit(d) ==
    CASE d = 0 -> "0" [] d = 1 -> "1" [] d = 2 -> "2" [] d = 3 -> "3"
      [] d = 4 -> "4" [] d = 5 -> "5" [] d = 6 -> "6" [] d = 7 -> "7"
      [] d = 8 -> "8" [] d = 9 -> "9"

RECURSIVE to_string(_)
\* decimal digits of an integer, as a tuple of characters
to_string(n) ==
    IF n < 0 THEN << "-" >> \o to_string(0 - n)
    ELSE IF n < 10 THEN << Digit(n) >>
    ELSE to_string(n \div 10) \o << Digit(n % 10) >>

RECURSIVE from_utf8_lossy(_)
\* String::from_utf8_lossy: every invalid byte becomes U+FFFD
from_utf8_lossy(bytes) ==
    IF bytes = << >> THEN << >>
    ELSE push_str(from_utf8_lossy(SubSeq(bytes, 1, Len(bytes) - 1)),
                  LET r == bytes[Len(bytes)]
                  IN  Run(IF r.c = BAD_BYTE THEN REPLACEMENT ELSE r.c, r.n))


\* ===================================================== command runner state
VARIABLES
    rpc,             \* position of Bash::run: idle, waiting, warned, returned
    prog,            \* what the command does: bytes written, status, duration
    child,           \* the spawned process: none, running, exited
    elapsed,         \* seconds since spawn
    stdout_pipe,     \* bytes the child has written to its stdout pipe
    stderr_pipe,     \* bytes the child has written to its stderr pipe
    warnings,        \* long-running warnings written to the error stream
    status,          \* ExitStatus obtained from child.wait()
    stdout_content,  \* decoded stdout
    stderr_content,  \* decoded stderr
    output,          \* the composed string, before the size cap
    ret              \* what run returned

rvars == << rpc, prog, child, elapsed, stdout_pipe, stderr_pipe, warnings,
            status, stdout_content, stderr_content, output, ret >>

NoCode == 0 - 1000   \* stands for ExitStatus::code() = None (killed by a signal)
NoStatus == [code |-> 0 - 2000]
NoProg == [out |-> << >>, err |-> << >>, status |-> NoStatus, dur |-> 0]

\* ExitStatus::success
success(st) == st.code = 0

\* variant: unwrap_or(0) instead of unwrap_or(-1)
code_or_minus_one_Zero(st) == IF st.code = NoCode THEN 0 ELSE st.code

\* status.code().unwrap_or(-1)
code_or_minus_one(st) == IF st.code = NoCode THEN 0 - 1 ELSE st.code

STDERR_LABEL == Lit(<< "s", "t", "d", "e", "r", "r", ":", "\n" >>)
STDOUT_LABEL == Lit(<< "s", "t", "d", "o", "u", "t", ":", "\n" >>)

\* format!("Exit code: {}\n", n)
exit_code_line(n) ==
    Lit(<< "E", "x", "i", "t", " ", "c", "o", "d", "e", ":", " " >>
        \o to_string(n) \o << "\n" >>)

\* format!("\n... [output truncated, {} bytes total]", total_bytes)
truncation_marker(total_bytes) ==
    Lit(<< "\n", ".", ".", ".", " ", "[", "o", "u", "t", "p", "u", "t", " ",
           "t", "r", "u", "n", "c", "a", "t", "e", "d", ",", " " >>
        \o to_string(total_bytes)
        \o << " ", "b", "y", "t", "e", "s", " ", "t", "o", "t", "a", "l", "]" >>)

\* variant: stdout and the stderr label are never separated by a newline
compose_success_NoSeparator(so, se) ==
    IF ~is_empty(se) THEN push_str(push_str(so, STDERR_LABEL), se) ELSE so

\* variant: the newline is pushed without looking at stdout
compose_success_AlwaysNewline(so, se) ==
    IF ~is_empty(se) THEN push_str(push_str(push(so, "\n"), STDERR_LABEL), se) ELSE so

\* the success branch of the composition
compose_success(so, se) ==
    IF ~is_empty(se)
    THEN push_str(push_str(IF ~is_empty(so) THEN push(so, "\n") ELSE so,
                           STDERR_LABEL), se)
    ELSE so

\* the failure branch of the composition
compose_failure(st, so, se) ==
    LET head == exit_code_line(code_or_minus_one(st))
        withOut == IF ~is_empty(so)
                   THEN push(push_str(push_str(head, STDOUT_LABEL), so), "\n")
                   ELSE head
    IN  IF ~is_empty(se)
        THEN push_str(push_str(withOut, STDERR_LABEL), se)
        ELSE withOut

\* let mut output = if status.success() { ... } else { ... };
compose(st, so, se) ==
    IF success(st) THEN compose_success(so, se) ELSE compose_failure(st, so, se)

\* String::truncate asserts that new_len lies on a character boundary
truncate_panics(s, new_len) == new_len <= len(s) /\ ~is_char_boundary(s, new_len)

\* String::truncate, when it does not panic
truncate(s, new_len) == IF new_len <= len(s) THEN Prefix(s, new_len) ELSE s

\* the size cap: what run returns for a composed string
cap_output(out) ==
    LET total_bytes == len(out)
    IN  IF total_bytes > MAX_OUTPUT_BYTES
        THEN IF truncate_panics(out, MAX_OUTPUT_BYTES)
             THEN [kind |-> "Panic"]
             ELSE [kind |-> "Ok",
                   val |-> push_str(PopToBoundary(truncate(out, MAX_OUTPUT_BYTES)),
                                    truncation_marker(total_bytes))]
        ELSE [kind |-> "Ok", val |-> out]

\* ------------------------------------------------------ commands considered
\* capacity of an OS pipe made by Stdio::piped() (64 KiB on Linux): a writer
\* blocks once this many bytes are in the pipe and nobody reads
PIPE_CAPACITY == 64 * 1024

\* the child can write all of its output and exit without anyone reading
FitsPipes(p) == len(p.out) <= PIPE_CAPACITY /\ len(p.err) <= PIPE_CAPACITY

AFills == { Run("a", n) : n \in (MAX_OUTPUT_BYTES - Margin)..(MAX_OUTPUT_BYTES + Margin) }

Contents ==
    { << >>,
      Lit(<< "h", "i", "\n" >>),
      Lit(<< "e", "r", "r", "\n" >>),
      Run(E_ACUTE, 1),
      Run(E_ACUTE, MAX_OUTPUT_BYTES \div 2),
      Run(BAD_BYTE, MAX_OUTPUT_BYTES \div 3 + 1),
      Run("a", PIPE_CAPACITY + 1) }
    \cup AFills
    \cup { push(f, EURO) : f \in AFills }

Statuses == { [code |-> 0], [code |-> 1], [code |-> 127], [code |-> NoCode] }

Durations == { 0, WARNING_TIMEOUT_SECS, WARNING_TIMEOUT_SECS + MaxExtraSecs }

Programs == [out : Contents, err : Contents, status : Statuses, dur : Durations]

InitRunner ==
    /\ rpc = "idle"
    /\ prog = NoProg
    /\ child = "none"
    /\ elapsed = 0
    /\ stdout_pipe = << >>
    /\ stderr_pipe = << >>
    /\ warnings = 0
    /\ status = NoStatus
    /\ stdout_content = << >>
    /\ stderr_content = << >>
    /\ output = << >>
    /\ ret = [kind |-> "None"]


\* ---------------------------------------------------- command runner actions
\* Command::new("bash").arg("-c").arg(command)...spawn() succeeds
Spawn(p) ==
    /\ rpc = "idle"
    /\ rpc' = "waiting"
    /\ prog' = p
    /\ child' = "running"
    /\ UNCHANGED << elapsed, stdout_pipe, stderr_pipe, warnings, status,
                    stdout_content, stderr_content, output, ret >>

\* spawn() fails: map_err(...)?
SpawnFails ==
    /\ rpc = "idle"
    /\ rpc' = "returned"
    /\ ret' = [kind |-> "Err", msg |-> "Failed to spawn command"]
    /\ UNCHANGED << prog, child, elapsed, stdout_pipe, stderr_pipe, warnings,
                    status, stdout_content, stderr_content, output >>

\* a second passes while the child runs or is blocked on a full pipe
Tick ==
    /\ rpc \in { "waiting", "warned" }
    /\ \/ child = "running" /\ elapsed < prog.dur
       \/ child = "blocked" /\ elapsed < WARNING_TIMEOUT_SECS + MaxExtraSecs
    /\ elapsed' = elapsed + 1
    /\ UNCHANGED << rpc, prog, child, stdout_pipe, stderr_pipe, warnings,
                    status, stdout_content, stderr_content, output, ret >>

\* the child has written its output to the capture pipes and exits
ChildExit ==
    /\ child = "running"
    /\ elapsed = prog.dur
    /\ FitsPipes(prog)
    /\ child' = "exited"
    /\ stdout_pipe' = prog.out
    /\ stderr_pipe' = prog.err
    /\ UNCHANGED << rpc, prog, elapsed, warnings, status, stdout_content,
                    stderr_content, output, ret >>

\* the child fills a capture pipe and blocks in write(): run reads the pipes
\* only after wait() has resolved
ChildBlocks ==
    /\ child = "running"
    /\ elapsed = prog.dur
    /\ ~FitsPipes(prog)
    /\ child' = "blocked"
    /\ stdout_pipe' = Prefix(prog.out, PIPE_CAPACITY)
    /\ stderr_pipe' = Prefix(prog.err, PIPE_CAPACITY)
    /\ UNCHANGED << rpc, prog, elapsed, warnings, status, stdout_content,
                    stderr_content, output, ret >>

\* everything after the wait resolved: drain both pipes, decode, compose,
\* cap the size, return
Finish(st) ==
    LET so == from_utf8_lossy(stdout_pipe)
        se == from_utf8_lossy(stderr_pipe)
        out == compose(st, so, se)
        r == cap_output(out)
    IN  /\ status' = st
        /\ stdout_content' = so
        /\ stderr_content' = se
        /\ stdout_pipe' = << >>
        /\ stderr_pipe' = << >>
        /\ output' = out
        /\ ret' = r
        /\ rpc' = IF r.kind = "Panic" THEN "panicked" ELSE "returned"

\* timeout(warning_duration, child.wait()) yields Ok(Ok(status))
WaitCompletes ==
    /\ rpc = "waiting"
    /\ child = "exited"
    /\ Finish(prog.status)
    /\ UNCHANGED << prog, child, elapsed, warnings >>

\* timeout(warning_duration, child.wait()) yields Ok(Err(e))
WaitFails ==
    /\ rpc = "waiting"
    /\ rpc' = "returned"
    /\ ret' = [kind |-> "Err", msg |-> "Command failed"]
    /\ UNCHANGED << prog, child, elapsed, stdout_pipe, stderr_pipe, warnings,
                    status, stdout_content, stderr_content, output >>

\* variant: the timeout kills the child instead of only warning
TimeoutElapses_KillsChild ==
    /\ rpc = "waiting"
    /\ child \in { "running", "blocked" }
    /\ elapsed >= WARNING_TIMEOUT_SECS
    /\ rpc' = "warned"
    /\ warnings' = warnings + 1
    /\ child' = "exited"
    /\ UNCHANGED << prog, elapsed, stdout_pipe, stderr_pipe, status,
                    stdout_content, stderr_content, output, ret >>

\* timeout(...) yields Err(_): the warning is written, the child is left alone
TimeoutElapses ==
    /\ rpc = "waiting"
    /\ child \in { "running", "blocked" }
    /\ elapsed >= WARNING_TIMEOUT_SECS
    /\ rpc' = "warned"
    /\ warnings' = warnings + 1
    /\ UNCHANGED << prog, child, elapsed, stdout_pipe, stderr_pipe, status,
                    stdout_content, stderr_content, output, ret >>

\* variant: after the warning run goes on without waiting for the child
WaitAfterWarningCompletes_NoWait ==
    /\ rpc = "warned"
    /\ Finish(prog.status)
    /\ UNCHANGED << prog, child, elapsed, warnings >>

\* the second child.wait().await yields Ok(status)
WaitAfterWarningCompletes ==
    /\ rpc = "warned"
    /\ child = "exited"
    /\ Finish(prog.status)
    /\ UNCHANGED << prog, child, elapsed, warnings >>

\* the second child.wait().await yields Err(e)
WaitAfterWarningFails ==
    /\ rpc = "warned"
    /\ rpc' = "returned"
    /\ ret' = [kind |-> "Err", msg |-> "Command failed"]
    /\ UNCHANGED << prog, child, elapsed, stdout_pipe, stderr_pipe, warnings,
                    status, stdout_content, stderr_content, output >>


\* ========================================================== turn loop state
VARIABLES
    pc,              \* position of main: prompt, read, stream, exited
    exit,            \* what main returned: running, Ok, Err
    history,         \* Vec<Message>
    raw,             \* what read_line last delivered
    input,           \* the trimmed line
    consumed,        \* the events stream.next() has yielded in this turn
    response_text,   \* text accumulated in this turn
    input_tokens,
    output_tokens,
    displayed,       \* text fragments echoed to the operator in this turn
    tokens_line,     \* the two numbers of the last "[Tokens: ...]" line
    engine_calls,    \* the (prompt, history) pairs handed to the engine
    delivered,       \* number of events the engine has delivered so far
    engine_history,  \* the engine's own copy of the history it was given
    usage_lines,     \* number of "[Tokens: ...]" lines printed so far
    turn_texts       \* per finished turn, the text its stream delivered

lvars == << pc, exit, history, raw, input, consumed, response_text,
            input_tokens, output_tokens, displayed, tokens_line, engine_calls,
            delivered, engine_history, usage_lines, turn_texts >>

\* ============================================================ file tool state
VARIABLES
    fs_dirs,         \* the directories that exist, as component tuples
    fs_files,        \* the regular files that exist: location -> bytes
    fop,             \* the last file tool call and what it returned
    last_write       \* the last write_file call that returned Ok

fvars == << fs_dirs, fs_files, fop, last_write >>

vars == << rvars, lvars, fvars >>

EOF == << "<eof>" >>          \* stands for read_line returning Ok(0)
READ_ERROR == << "<error>" >>  \* stands for read_line returning Err(e)

Whitespace == { " ", "\t", "\n", "\r" }

RECURSIVE trim_start(_)
trim_start(s) ==
    IF s # << >> /\ s[1] \in Whitespace THEN trim_start(Tail(s)) ELSE s

RECURSIVE trim_end(_)
trim_end(s) ==
    IF s # << >> /\ s[Len(s)] \in Whitespace
    THEN trim_end(SubSeq(s, 1, Len(s) - 1)) ELSE s

\* str::trim
trim(s) == trim_end(trim_start(s))

UpperCase == << "A", "B", "C", "D", "E", "F", "G", "H", "I", "J", "K", "L", "M",
                "N", "O", "P", "Q", "R", "S", "T", "U", "V", "W", "X", "Y", "Z" >>
LowerCase == << "a", "b", "c", "d", "e", "f", "g", "h", "i", "j", "k", "l", "m",
                "n", "o", "p", "q", "r", "s", "t", "u", "v", "w", "x", "y", "z" >>

\* u8::to_ascii_lowercase
to_ascii_lowercase(c) ==
    IF \E i \in 1..26 : UpperCase[i] = c
    THEN LowerCase[CHOOSE i \in 1..26 : UpperCase[i] = c]
    ELSE c

\* variant: a case-sensitive comparison
eq_ignore_ascii_case_Exact(a, b) == a = b

\* str::eq_ignore_ascii_case
eq_ignore_ascii_case(a, b) ==
    /\ Len(a) = Len(b)
    /\ \A i \in 1..Len(a) : to_ascii_lowercase(a[i]) = to_ascii_lowercase(b[i])

\* input.eq_ignore_ascii_case("exit") || input.eq_ignore_ascii_case("quit")
is_exit_command(s) ==
    \/ eq_ignore_ascii_case(s, << "e", "x", "i", "t" >>)
    \/ eq_ignore_ascii_case(s, << "q", "u", "i", "t" >>)

RECURSIVE Reverse(_)
Reverse(s) == IF s = << >> THEN << >> ELSE Reverse(Tail(s)) \o << s[1] >>

RECURSIVE group_digits(_, _)
\* for (i, c) in s.chars().rev().enumerate(): a comma before every third digit
group_digits(rev, i) ==
    IF rev = << >> THEN << >>
    ELSE (IF i > 0 /\ i % 3 = 0 THEN << ",", rev[1] >> ELSE << rev[1] >>)
         \o group_digits(Tail(rev), i + 1)

\* fn format_number(n: u64) -> String
format_number(n) == Reverse(group_digits(Reverse(to_string(n)), 0))

user(text) == [role |-> "user", text |-> text]
assistant(text) == [role |-> "assistant", text |-> text]

\* ------------------------------------------------------------------- inputs
Lines ==
    { << " ", "h", "i", " ", "\n" >>,
      << "q", "u", "i", "t", "\n" >>,
      << " ", "Q", "u", "I", "t", "\r", "\n" >>,
      << "E", "X", "I", "T" >>,
      << " ", "\t", "\n" >> }

Fragments == { << >>, << "H", "e", "l", "l", "o" >>, << " ", "w", "o", "r", "l", "d" >> }

Usages == { [input_tokens |-> 10, output_tokens |-> 5],
            [input_tokens |-> 1234, output_tokens |-> 1000000] }

Events ==
    { [kind |-> "Text", text |-> t] : t \in Fragments }
    \cup { [kind |-> "ToolCall", name |-> "bash"] }
    \cup { [kind |-> "ToolResult", id |-> "toolu_1"] }
    \cup { [kind |-> "Final", usage |-> u] : u \in Usages }
    \cup { [kind |-> "Other"] }

InitLoop ==
    /\ pc = "prompt"
    /\ exit = "running"
    /\ history = << >>
    /\ raw = << >>
    /\ input = << >>
    /\ consumed = << >>
    /\ response_text = << >>
    /\ input_tokens = 0
    /\ output_tokens = 0
    /\ displayed = << >>
    /\ tokens_line = << >>
    /\ engine_calls = << >>
    /\ delivered = 0
    /\ engine_history = << >>
    /\ usage_lines = 0
    /\ turn_texts = << >>

\* ------------------------------------------------------------ the file tools
\* str::as_bytes: the UTF-8 encoding of a character
Utf8(c) ==
    CASE c = E_ACUTE -> << "0xC3", "0xA9" >>
      [] c = EURO -> << "0xE2", "0x82", "0xAC" >>
      [] OTHER -> << c >>

RECURSIVE as_bytes(_)
as_bytes(chars) ==
    IF chars = << >> THEN << >> ELSE Utf8(chars[1]) \o as_bytes(Tail(chars))

NonAscii == { "0xC3", "0xA9", "0xE2", "0x82", "0xAC", BAD_BYTE }

RECURSIVE from_utf8(_)
\* String::from_utf8 as read_to_string uses it: strict, an invalid sequence
\* is an error
from_utf8(bytes) ==
    IF bytes = << >> THEN [ok |-> TRUE, val |-> << >>]
    ELSE LET take == IF Len(bytes) >= 2 /\ SubSeq(bytes, 1, 2) = Utf8(E_ACUTE)
                     THEN [n |-> 2, c |-> E_ACUTE]
                     ELSE IF Len(bytes) >= 3 /\ SubSeq(bytes, 1, 3) = Utf8(EURO)
                     THEN [n |-> 3, c |-> EURO]
                     ELSE IF bytes[1] \notin NonAscii
                     THEN [n |-> 1, c |-> bytes[1]]
                     ELSE [n |-> 0, c |-> ""]
         IN  IF take.n = 0 THEN [ok |-> FALSE, val |-> << >>]
             ELSE LET rest == from_utf8(SubSeq(bytes, take.n + 1, Len(bytes)))
                  IN  [ok |-> rest.ok,
                       val |-> IF rest.ok THEN << take.c >> \o rest.val ELSE << >>]

\* Path::parent: the path without its last component
parent(path) == SubSeq(path, 1, Len(path) - 1)

\* the location a relative path names: "." components stay where they are
Location(path) == SelectSeq(path, LAMBDA comp : comp # ".")

\* the directories create_dir_all has to find or make
Ancestors(loc) == { SubSeq(loc, 1, k) : k \in 1..Len(loc) }

\* std::fs::create_dir_all fails when a component is an existing file
create_dir_all_fails(dir) == \E a \in Ancestors(Location(dir)) : a \in DOMAIN fs_files

\* std::fs::write fails on a directory or below a missing directory
write_fails(dirs, path) ==
    LET loc == Location(path)
    IN  \/ loc = << >>
        \/ loc \in dirs
        \/ parent(loc) # << >> /\ parent(loc) \notin dirs

\* variant: the file is opened for appending
fs_write_Appends(files, loc, bytes) ==
    IF loc \in DOMAIN files THEN (loc :> (files[loc] \o bytes)) @@ files
    ELSE (loc :> bytes) @@ files

\* std::fs::write creates the file or replaces its whole content
fs_write(files, loc, bytes) == (loc :> bytes) @@ files

FilePaths ==
    { << "f" >>, << ".", "f" >>, << "d", "e", "f" >>, << "d", "e" >>,
      << "x" >>, << "x", "f" >> }

FileContents == { << >>, << "A" >>, << "B", E_ACUTE >> }

NoWrite == [path |-> << >>, content |-> << >>, replaced |-> FALSE, made_dirs |-> FALSE]

InitFiles ==
    /\ fs_dirs = { }
    /\ fs_files = (<< "x" >> :> << BAD_BYTE >>)
    /\ fop = [op |-> "none"]
    /\ last_write = NoWrite

\* WriteFile::call
WriteFileCall(path, content) ==
    LET dir == parent(path)
        mkdirs == dir # << >>
        dirs1 == IF mkdirs /\ ~create_dir_all_fails(dir)
                 THEN fs_dirs \cup Ancestors(Location(dir)) ELSE fs_dirs
        loc == Location(path)
    IN  IF mkdirs /\ create_dir_all_fails(dir)
        THEN /\ fop' = [op |-> "write", path |-> path,
                        result |-> [kind |-> "Err", msg |-> "Failed to create directories"]]
             /\ UNCHANGED << fs_dirs, fs_files, last_write >>
        ELSE IF write_fails(dirs1, path)
        THEN /\ fs_dirs' = dirs1
             /\ fop' = [op |-> "write", path |-> path,
                        result |-> [kind |-> "Err", msg |-> "Failed to write file"]]
             /\ UNCHANGED << fs_files, last_write >>
        ELSE /\ fs_dirs' = dirs1
             /\ fs_files' = fs_write(fs_files, loc, as_bytes(content))
             /\ fop' = [op |-> "write", path |-> path,
                        result |-> [kind |-> "Ok", bytes |-> Len(as_bytes(content)),
                                    path |-> path]]
             /\ last_write' =
                  [path |-> path, content |-> content,
                   replaced |-> /\ last_write.path = path
                                /\ last_write.content # content,
                   made_dirs |-> \/ dirs1 # fs_dirs
                                 \/ last_write.path = path /\ last_write.made_dirs]

\* ReadFile::call
ReadFileCall(path) ==
    LET loc == Location(path)
        text == IF loc \in DOMAIN fs_files THEN from_utf8(fs_files[loc])
                ELSE [ok |-> FALSE, val |-> << >>]
    IN  /\ fop' = [op |-> "read", path |-> path,
                   result |-> IF text.ok THEN [kind |-> "Ok", val |-> text.val]
                              ELSE [kind |-> "Err", msg |-> "Failed to read file"]]
        /\ UNCHANGED << fs_dirs, fs_files, last_write >>

Init == InitRunner /\ InitLoop /\ InitFiles

\* --------------------------------------------------------- turn loop actions
\* print!("> "); stdout.flush()?;
Prompt(flush_ok) ==
    /\ pc = "prompt"
    /\ IF flush_ok
       THEN pc' = "read" /\ exit' = exit
       ELSE pc' = "exited" /\ exit' = "Err"
    /\ UNCHANGED << history, raw, input, consumed, response_text, input_tokens,
                    output_tokens, displayed, tokens_line, engine_calls,
                    delivered, engine_history, usage_lines, turn_texts >>

\* read_line returned Ok(0): println!("\nGoodbye!"); break
ReadEof ==
    /\ pc = "read"
    /\ raw' = EOF
    /\ pc' = "exited"
    /\ exit' = "Ok"
    /\ UNCHANGED << history, input, consumed, response_text, input_tokens,
                    output_tokens, displayed, tokens_line, engine_calls,
                    delivered, engine_history, usage_lines, turn_texts >>

\* read_line returned Err(e): eprintln!, next iteration
ReadFails ==
    /\ pc = "read"
    /\ raw' = READ_ERROR
    /\ pc' = "prompt"
    /\ UNCHANGED << exit, history, input, consumed, response_text, input_tokens,
                    output_tokens, displayed, tokens_line, engine_calls,
                    delivered, engine_history, usage_lines, turn_texts >>

\* variant: the two counters are declared outside the loop and never reset
ReadLine_NoReset(line) ==
    /\ pc = "read"
    /\ raw' = line
    /\ input' = trim(line)
    /\ IF is_exit_command(trim(line))
       THEN /\ pc' = "exited"
            /\ exit' = "Ok"
            /\ UNCHANGED << consumed, response_text, displayed, engine_calls,
                            engine_history >>
       ELSE IF trim(line) = << >>
       THEN /\ pc' = "prompt"
            /\ UNCHANGED << exit, consumed, response_text, displayed,
                            engine_calls, engine_history >>
       ELSE /\ Len(engine_calls) < MaxTurns
            /\ pc' = "stream"
            /\ engine_calls' = Append(engine_calls,
                                      [prompt |-> trim(line), history |-> history])
            /\ engine_history' = Append(history, user(trim(line)))
            /\ consumed' = << >>
            /\ displayed' = << >>
            /\ response_text' = << >>
            /\ exit' = exit
    /\ UNCHANGED << history, tokens_line, delivered, usage_lines, turn_texts,
                    input_tokens, output_tokens >>

\* variant: a line that is empty after trimming is sent to the engine
ReadLine_NoEmptyCheck(line) ==
    /\ pc = "read"
    /\ raw' = line
    /\ input' = trim(line)
    /\ IF is_exit_command(trim(line))
       THEN /\ pc' = "exited"
            /\ exit' = "Ok"
            /\ UNCHANGED << consumed, response_text, input_tokens, output_tokens,
                            displayed, engine_calls, engine_history >>
       ELSE /\ Len(engine_calls) < MaxTurns
            /\ pc' = "stream"
            /\ engine_calls' = Append(engine_calls,
                                      [prompt |-> trim(line), history |-> history])
            /\ engine_history' = Append(history, user(trim(line)))
            /\ consumed' = << >>
            /\ displayed' = << >>
            /\ response_text' = << >>
            /\ input_tokens' = 0
            /\ output_tokens' = 0
            /\ exit' = exit
    /\ UNCHANGED << history, tokens_line, delivered, usage_lines, turn_texts >>

\* read_line returned Ok(_) with the line in input
ReadLine(line) ==
    /\ pc = "read"
    /\ raw' = line
    /\ input' = trim(line)
    /\ IF is_exit_command(trim(line))
       THEN /\ pc' = "exited"
            /\ exit' = "Ok"
            /\ UNCHANGED << consumed, response_text, input_tokens, output_tokens,
                            displayed, engine_calls, engine_history >>
       ELSE IF trim(line) = << >>
       THEN /\ pc' = "prompt"
            /\ UNCHANGED << exit, consumed, response_text, input_tokens,
                            output_tokens, displayed, engine_calls,
                            engine_history >>
       ELSE /\ Len(engine_calls) < MaxTurns
            /\ pc' = "stream"
            /\ engine_calls' = Append(engine_calls,
                                      [prompt |-> trim(line), history |-> history])
            /\ engine_history' = Append(history, user(trim(line)))
            /\ consumed' = << >>
            /\ displayed' = << >>
            /\ response_text' = << >>
            /\ input_tokens' = 0
            /\ output_tokens' = 0
            /\ exit' = exit
    /\ UNCHANGED << history, tokens_line, delivered, usage_lines, turn_texts >>

RECURSIVE TextOf(_)
\* the text fragments of an event sequence, concatenated in arrival order
TextOf(evs) ==
    IF evs = << >> THEN << >>
    ELSE (IF evs[1].kind = "Text" THEN evs[1].text ELSE << >>) \o TextOf(Tail(evs))

\* variant: the engine works on the caller's history instead of a clone
FinishTurn_FromEngineCopy(text, in_tok, out_tok) ==
    /\ tokens_line' = << format_number(in_tok), format_number(out_tok) >>
    /\ history' = Append(engine_history, user(input))
                  \o (IF text # << >> THEN << assistant(text) >> ELSE << >>)
    /\ usage_lines' = usage_lines + 1
    /\ turn_texts' = Append(turn_texts, TextOf(consumed))
    /\ pc' = "prompt"

\* variant: the two pushes are in the wrong order
FinishTurn_AssistantFirst(text, in_tok, out_tok) ==
    /\ tokens_line' = << format_number(in_tok), format_number(out_tok) >>
    /\ history' = history
                  \o (IF text # << >> THEN << assistant(text) >> ELSE << >>)
                  \o << user(input) >>
    /\ usage_lines' = usage_lines + 1
    /\ turn_texts' = Append(turn_texts, TextOf(consumed))
    /\ pc' = "prompt"

\* variant: the assistant entry is pushed without the is_empty test
FinishTurn_AlwaysAssistant(text, in_tok, out_tok) ==
    /\ tokens_line' = << format_number(in_tok), format_number(out_tok) >>
    /\ history' = history \o << user(input), assistant(text) >>
    /\ usage_lines' = usage_lines + 1
    /\ turn_texts' = Append(turn_texts, TextOf(consumed))
    /\ pc' = "prompt"

\* the code after the while loop: print the usage line, record the turn
FinishTurn(text, in_tok, out_tok) ==
    /\ tokens_line' = << format_number(in_tok), format_number(out_tok) >>
    /\ history' = Append(history, user(input))
                  \o (IF text # << >> THEN << assistant(text) >> ELSE << >>)
    /\ usage_lines' = usage_lines + 1
    /\ turn_texts' = Append(turn_texts, TextOf(consumed))
    /\ pc' = "prompt"

\* what the engine pushes onto its own copy of the history for an item
EngineAppends(ev) ==
    CASE ev.kind = "Text" -> << assistant(ev.text) >>
      [] ev.kind = "ToolCall" -> << assistant(<< "<tool call>" >>) >>
      [] ev.kind = "ToolResult" -> << user(<< "<tool result>" >>) >>
      [] OTHER -> << >>

\* variant: the final-usage item ends the while loop
StreamItem_FinalEnds(ev, flush_ok) ==
    /\ pc = "stream"
    /\ delivered < MaxEvents
    /\ delivered' = delivered + 1
    /\ consumed' = Append(consumed, ev)
    /\ engine_history' = engine_history \o EngineAppends(ev)
    /\ IF ev.kind = "Final"
       THEN /\ flush_ok
            /\ input_tokens' = ev.usage.input_tokens
            /\ output_tokens' = ev.usage.output_tokens
            /\ FinishTurn(response_text, ev.usage.input_tokens, ev.usage.output_tokens)
            /\ UNCHANGED << exit, raw, input, displayed, response_text, engine_calls >>
       ELSE /\ CASE ev.kind = "Text" ->
                      IF flush_ok
                      THEN /\ displayed' = displayed \o ev.text
                           /\ response_text' = response_text \o ev.text
                           /\ UNCHANGED << pc, exit, input_tokens, output_tokens >>
                      ELSE /\ pc' = "exited"
                           /\ exit' = "Err"
                           /\ UNCHANGED << displayed, response_text, input_tokens,
                                           output_tokens >>
                 [] ev.kind \in { "ToolCall", "ToolResult" } ->
                      /\ IF flush_ok
                         THEN UNCHANGED << pc, exit >>
                         ELSE pc' = "exited" /\ exit' = "Err"
                      /\ UNCHANGED << displayed, response_text, input_tokens,
                                      output_tokens >>
                 [] OTHER ->
                      /\ flush_ok
                      /\ UNCHANGED << pc, exit, displayed, response_text,
                                      input_tokens, output_tokens >>
            /\ UNCHANGED << history, raw, input, tokens_line, engine_calls,
                            usage_lines, turn_texts >>

\* stream.next() yields Ok(item)
StreamItem(ev, flush_ok) ==
    /\ pc = "stream"
    /\ delivered < MaxEvents
    /\ delivered' = delivered + 1
    /\ consumed' = Append(consumed, ev)
    /\ CASE ev.kind = "Text" ->
              IF flush_ok
              THEN /\ displayed' = displayed \o ev.text
                   /\ response_text' = response_text \o ev.text
                   /\ UNCHANGED << pc, exit, input_tokens, output_tokens >>
              ELSE /\ pc' = "exited"
                   /\ exit' = "Err"
                   /\ UNCHANGED << displayed, response_text, input_tokens,
                                   output_tokens >>
         [] ev.kind \in { "ToolCall", "ToolResult" } ->
              /\ IF flush_ok
                 THEN UNCHANGED << pc, exit >>
                 ELSE pc' = "exited" /\ exit' = "Err"
              /\ UNCHANGED << displayed, response_text, input_tokens,
                              output_tokens >>
         [] ev.kind = "Final" ->
              /\ flush_ok
              /\ input_tokens' = ev.usage.input_tokens
              /\ output_tokens' = ev.usage.output_tokens
              /\ UNCHANGED << pc, exit, displayed, response_text >>
         [] OTHER ->
              /\ flush_ok
              /\ UNCHANGED << pc, exit, displayed, response_text, input_tokens,
                              output_tokens >>
    /\ engine_history' = engine_history \o EngineAppends(ev)
    /\ UNCHANGED << history, raw, input, tokens_line, engine_calls, usage_lines,
                    turn_texts >>

\* variant: the error is logged but the while loop is not left
StreamError_NoBreak ==
    /\ pc = "stream"
    /\ delivered < MaxEvents
    /\ delivered' = delivered + 1
    /\ consumed' = Append(consumed, [kind |-> "Err"])
    /\ UNCHANGED << pc, exit, history, raw, input, response_text, input_tokens,
                    output_tokens, displayed, tokens_line, engine_calls,
                    engine_history, usage_lines, turn_texts >>

\* variant: the text accumulated before the error is dropped
StreamError_DropsPartial ==
    /\ pc = "stream"
    /\ delivered < MaxEvents
    /\ delivered' = delivered + 1
    /\ consumed' = Append(consumed, [kind |-> "Err"])
    /\ tokens_line' = << format_number(input_tokens), format_number(output_tokens) >>
    /\ history' = Append(history, user(input))
    /\ usage_lines' = usage_lines + 1
    /\ turn_texts' = Append(turn_texts, TextOf(consumed))
    /\ pc' = "prompt"
    /\ UNCHANGED << exit, raw, input, response_text, input_tokens,
                    output_tokens, displayed, engine_calls, engine_history >>

\* stream.next() yields Err(e): eprintln!, break, then the code after the loop
StreamError ==
    /\ pc = "stream"
    /\ delivered < MaxEvents
    /\ delivered' = delivered + 1
    /\ consumed' = Append(consumed, [kind |-> "Err"])
    /\ FinishTurn(response_text, input_tokens, output_tokens)
    /\ UNCHANGED << exit, raw, input, response_text, input_tokens,
                    output_tokens, displayed, engine_calls, engine_history >>

\* stream.next() yields None: the loop ends, then the code after the loop
StreamEnd ==
    /\ pc = "stream"
    /\ FinishTurn(response_text, input_tokens, output_tokens)
    /\ UNCHANGED << exit, raw, input, consumed, response_text, input_tokens,
                    output_tokens, displayed, engine_calls, delivered,
                    engine_history >>

\* ------------------------------------------------------------ specifications
NextRunner ==
    /\ \/ rpc = "idle" /\ \E p \in Programs : Spawn(p)
       \/ SpawnFails
       \/ Tick
       \/ ChildExit
       \/ ChildBlocks
       \/ WaitCompletes
       \/ WaitFails
       \/ TimeoutElapses
       \/ WaitAfterWarningCompletes
       \/ WaitAfterWarningFails
    /\ UNCHANGED << lvars, fvars >>

Next ==
    /\ \/ \E ok \in BOOLEAN : Prompt(ok)
       \/ ReadEof
       \/ ReadFails
       \/ \E line \in Lines : ReadLine(line)
       \/ \E ev \in Events, ok \in BOOLEAN : StreamItem(ev, ok)
       \/ StreamError
       \/ StreamEnd
    /\ UNCHANGED << rvars, fvars >>

\* the turn loop of main
Spec == Init /\ [][Next]_vars

\* one invocation of Bash::run
SpecRunner == Init /\ [][NextRunner]_vars

NextFiles ==
    /\ \/ \E path \in FilePaths, content \in FileContents : WriteFileCall(path, content)
       \/ \E path \in FilePaths : ReadFileCall(path)
    /\ UNCHANGED << rvars, lvars >>

\* a sequence of write_file and read_file calls
SpecFiles == Init /\ [][NextFiles]_vars


\* ================================================================ properties
RECURSIVE Drop(_, _)
\* s without its first k bytes, k on a character boundary
Drop(s, k) ==
    IF k = 0 \/ s = << >> THEN s
    ELSE LET w == len_utf8(s[1].c)
             bytes == w * s[1].n
         IN  IF k >= bytes THEN Drop(Tail(s), k - bytes)
             ELSE << [c |-> s[1].c, n |-> s[1].n - (k \div w)] >> \o Tail(s)

StartsWith(s, p) ==
    /\ len(p) <= len(s)
    /\ is_char_boundary(s, len(p))
    /\ Prefix(s, len(p)) = p

\* the wait on the child succeeded and run went on to its end
Waited == rpc \in { "returned", "panicked" } /\ status # NoStatus

HI == Lit(<< "h", "i", "\n" >>)
ERR == Lit(<< "e", "r", "r", "\n" >>)

\* C2 (as stated): exit status zero, stdout "hi\n", stderr "err\n": the
\* returned string is exactly "hi\nstderr:\nerr\n".
C2_Original ==
    (Waited /\ prog.status.code = 0 /\ prog.out = HI /\ prog.err = ERR)
    => ret = [kind |-> "Ok",
              val |-> Lit(<< "h", "i", "\n",
                             "s", "t", "d", "e", "r", "r", ":", "\n",
                             "e", "r", "r", "\n" >>)]

\* C2 (amended): for that invocation the returned string is exactly
\* "hi\n\nstderr:\nerr\n": a newline is pushed after the non-empty stdout
\* although it already ends in one; no truncation marker is appended.
C2_Amended ==
    (Waited /\ prog.status.code = 0 /\ prog.out = HI /\ prog.err = ERR)
    => ret = [kind |-> "Ok",
              val |-> Lit(<< "h", "i", "\n", "\n",
                             "s", "t", "d", "e", "r", "r", ":", "\n",
                             "e", "r", "r", "\n" >>)]

C2_Witness ==
    /\ rpc = "returned"
    /\ ret.kind = "Ok"
    /\ prog.status.code = 0
    /\ prog.out = HI
    /\ prog.err = ERR
    /\ len(ret.val) = 16


\* C3 (as stated): whatever the child wrote and however it ended, run returns
\* a string of at most 51200 bytes plus the truncation marker, and a truncated
\* result keeps a prefix of the composed string that ends on one of its
\* character boundaries.
C3_Claim ==
    Waited =>
        /\ ret.kind = "Ok"
        /\ len(ret.val) <= MAX_OUTPUT_BYTES + len(truncation_marker(len(output)))
        /\ len(output) > MAX_OUTPUT_BYTES =>
              LET kept == len(ret.val) - len(truncation_marker(len(output)))
              IN  /\ kept <= MAX_OUTPUT_BYTES
                  /\ is_char_boundary(output, kept)
                  /\ is_char_boundary(ret.val, kept)
                  /\ Prefix(ret.val, kept) = Prefix(output, kept)

C5_ChildExitedOnReturn ==
    ret.kind = "Ok" => child = "exited"

C5_Witness ==
    /\ rpc = "returned"
    /\ ret.kind = "Ok"
    /\ warnings = 1
    /\ elapsed > WARNING_TIMEOUT_SECS
    /\ child = "exited"

\* what the command's own behaviour makes run return
ResultOf(p) ==
    cap_output(compose(p.status, from_utf8_lossy(p.out), from_utf8_lossy(p.err)))

\* C6: the warning is written at most once per invocation, only while the
\* child is still running with the 60 seconds elapsed; writing it leaves the
\* child and its pipes untouched; and the outcome of run is the one the
\* command's behaviour determines, whether or not the warning was written.
C6_WarningIsAdvisory ==
    /\ [](warnings <= 1)
    /\ [][warnings' # warnings =>
            /\ warnings' = warnings + 1
            /\ child \in { "running", "blocked" }
            /\ elapsed >= WARNING_TIMEOUT_SECS
            /\ child' = child
            /\ stdout_pipe' = stdout_pipe
            /\ stderr_pipe' = stderr_pipe]_vars
    /\ [](Waited => ret = ResultOf(prog))

C6_Witness ==
    /\ rpc = "returned"
    /\ warnings = 1
    /\ ret.kind = "Ok"
    /\ ~is_empty(stdout_content)
    /\ ret = ResultOf(prog)

\* the sections of a failure result, read off the returned string
FailureShape(v, n, so, se) ==
    LET head == exit_code_line(n)
        afterHead == Drop(v, len(head))
        outSection == push(push_str(STDOUT_LABEL, so), "\n")
        afterOut == IF is_empty(so) THEN afterHead
                    ELSE Drop(afterHead, len(outSection))
    IN  /\ StartsWith(v, head)
        /\ ~is_empty(so) <=> StartsWith(afterHead, STDOUT_LABEL)
        /\ ~is_empty(so) => StartsWith(afterHead, outSection)
        /\ ~is_empty(se) <=> StartsWith(afterOut, STDERR_LABEL)
        /\ ~is_empty(se) => afterOut = push_str(STDERR_LABEL, se)
        /\ is_empty(se) => afterOut = << >>

\* the number the claim puts in the first line
ReportedCode(st) == IF st.code = NoCode THEN 0 - 1 ELSE st.code

HasKind(evs, k) == \E i \in 1..Len(evs) : evs[i].kind = k

\* the usage of the last final-usage event of an event sequence
LastUsage(evs) ==
    LET i == CHOOSE j \in 1..Len(evs) :
                 /\ evs[j].kind = "Final"
                 /\ \A k \in (j + 1)..Len(evs) : evs[k].kind # "Final"
    IN  evs[i].usage

RECURSIVE NumberShown(_)
\* the number a printed, comma-grouped decimal denotes
NumberShown(chars) ==
    IF chars = << >> THEN 0
    ELSE LET c == chars[Len(chars)]
             front == SubSeq(chars, 1, Len(chars) - 1)
         IN  IF c = "," THEN NumberShown(front)
             ELSE 10 * NumberShown(front) + (CHOOSE d \in 0..9 : Digit(d) = c)

\* a turn ends: the loop goes from consuming the stream back to the prompt
TurnEnds == pc = "stream" /\ pc' = "prompt"

HELLO == << "H", "e", "l", "l", "o" >>
WORLD == << " ", "w", "o", "r", "l", "d" >>

\* C1 (as stated): a turn whose stream yields a transport error after text
\* fragments were received adds exactly one entry, the user's input.
C1_Original ==
    [][(TurnEnds /\ HasKind(consumed', "Err") /\ HasKind(consumed', "Text"))
       => history' = Append(history, user(trim(raw)))]_vars

\* C1 (amended): such a turn adds the user's input followed, unless every
\* fragment received before the error was empty, by one assistant entry
\* holding the concatenation of those fragments: the partial text is kept.
C1_Amended ==
    [][(TurnEnds /\ HasKind(consumed', "Err") /\ HasKind(consumed', "Text"))
       => LET partial == TextOf(consumed')
          IN  /\ consumed'[Len(consumed')].kind = "Err"
              /\ history' = Append(history, user(trim(raw)))
                            \o (IF partial # << >> THEN << assistant(partial) >>
                                ELSE << >>)]_vars

C1_Witness ==
    /\ pc = "prompt"
    /\ consumed = << [kind |-> "Text", text |-> HELLO], [kind |-> "Err"] >>
    /\ history = << user(<< "h", "i" >>), assistant(HELLO) >>

\* C9: a turn whose stream yields no transport error adds the trimmed input
\* and then, when the fragments are not all empty, one assistant entry with
\* their concatenation in arrival order (two entries in all); the usage line
\* shows the numbers of the final-usage event.
C9_TurnRecorded ==
    [][(TurnEnds /\ ~HasKind(consumed', "Err"))
       => LET text == TextOf(consumed')
          IN  /\ text = << >> => history' = Append(history, user(trim(raw)))
              /\ text # << >> =>
                    /\ history' = history \o << user(trim(raw)), assistant(text) >>
                    /\ Len(history') = Len(history) + 2
              /\ HasKind(consumed', "Final") =>
                    /\ NumberShown(tokens_line'[1]) = LastUsage(consumed').input_tokens
                    /\ NumberShown(tokens_line'[2]) = LastUsage(consumed').output_tokens]_vars

C9_Witness ==
    /\ pc = "prompt"
    /\ consumed = << [kind |-> "Text", text |-> HELLO],
                     [kind |-> "Text", text |-> WORLD],
                     [kind |-> "Final",
                      usage |-> [input_tokens |-> 10, output_tokens |-> 5]] >>
    /\ history = << user(<< "h", "i" >>), assistant(HELLO \o WORLD) >>
    /\ tokens_line = << << "1", "0" >>, << "5" >> >>

\* "exit" and "quit" in every letter case
ExitWords ==
    { << a, b, c, d >> : a \in { "e", "E" }, b \in { "x", "X" },
                         c \in { "i", "I" }, d \in { "t", "T" } }
    \cup { << a, b, c, d >> : a \in { "q", "Q" }, b \in { "u", "U" },
                              c \in { "i", "I" }, d \in { "t", "T" } }

\* C10: when the trimmed line is "exit" or "quit" in any letter case, or the
\* read hits end-of-input, main returns Ok, the engine is not called for that
\* input and the history is left as it was.
C10_ExitLeavesHistory ==
    [][(pc = "read" /\ (raw' = EOF \/ trim(raw') \in ExitWords))
       => /\ pc' = "exited"
          /\ exit' = "Ok"
          /\ engine_calls' = engine_calls
          /\ history' = history]_vars

C10_Witness ==
    /\ pc = "exited"
    /\ exit = "Ok"
    /\ raw = << " ", "Q", "u", "I", "t", "\r", "\n" >>
    /\ Len(engine_calls) = 1
    /\ Len(history) = 2

\* C11: once a transport error has been taken from the stream, no further
\* event of that stream is consumed: nothing more is displayed or accumulated
\* and no usage is captured; main does not return, and the loop is back at
\* the prompt, from where only a new engine call starts a new stream.
C11_ErrorEndsConsumption ==
    /\ [](HasKind(consumed, "Err") => pc # "stream")
    /\ [][(Len(consumed') = Len(consumed) + 1
           /\ consumed'[Len(consumed')].kind = "Err")
          => /\ pc' = "prompt"
             /\ exit' = "running"
             /\ displayed' = displayed
             /\ response_text' = response_text
             /\ input_tokens' = input_tokens
             /\ output_tokens' = output_tokens]_vars
    /\ [][(HasKind(consumed, "Err") /\ pc' # "exited")
          => /\ displayed' = displayed \/ displayed' = << >>
             /\ consumed' = consumed
                \/ (consumed' = << >> /\ Len(engine_calls') = Len(engine_calls) + 1)]_vars

C11_Witness ==
    /\ pc = "read"
    /\ exit = "running"
    /\ consumed = << [kind |-> "Text", text |-> HELLO], [kind |-> "Err"] >>
    /\ displayed = HELLO
    /\ raw = << " ", "\t", "\n" >>

\* C12 (as stated): main returns only on exit/quit or end-of-input, and then
\* with Ok; after a transport error, a read error or a failure to write to the
\* operator display the loop goes on to the next prompt.
C12_Claim ==
    /\ [][(exit = "running" /\ exit' # "running")
          => /\ pc = "read"
             /\ exit' = "Ok"
             /\ raw' = EOF \/ trim(raw') \in ExitWords]_vars
    /\ [](pc = "exited" => exit = "Ok")

\* C13: the history only grows at its end: whatever was in it before a step
\* is still there, unchanged and at the same position, also while the engine
\* pushes messages onto the copy it was given; the history changes only when
\* a turn that reached the engine ends, and then by one or two entries.
C13_AppendOnly ==
    [][/\ Len(history') >= Len(history)
       /\ SubSeq(history', 1, Len(history)) = history
       /\ TurnEnds => Len(history') - Len(history) \in { 1, 2 }
       /\ ~TurnEnds => history' = history]_vars

C13_Witness ==
    /\ pc = "prompt"
    /\ Len(engine_calls) = 2
    /\ Len(engine_calls[2].history) = 2
    /\ Len(engine_history) = 4
    /\ Len(history) = 3
    /\ SubSeq(history, 1, 2) = engine_calls[2].history

\* C14: a read_file of the path of the last successful write_file returns
\* exactly the content that call wrote: the later of two contents written to
\* the same path, never both, also when the write had to create the ancestor
\* directories.
C14_RoundTrip ==
    (fop.op = "read" /\ last_write # NoWrite /\ fop.path = last_write.path)
    => fop.result = [kind |-> "Ok", val |-> last_write.content]

C14_Witness ==
    /\ fop.op = "read"
    /\ fop.path = << "d", "e", "f" >>
    /\ last_write.path = fop.path
    /\ last_write.replaced
    /\ last_write.made_dirs
    /\ fop.result = [kind |-> "Ok", val |-> << "B", E_ACUTE >>]

ZERO_USAGE == << << "0" >>, << "0" >> >>

\* C15: the two counters start every turn at zero: while a turn's stream has
\* delivered no final-usage event they are 0, and the usage line of a turn
\* that ends without one reads 0 in / 0 out, whatever earlier turns captured.
C15_UsageReset ==
    /\ []((pc = "stream" /\ ~HasKind(consumed, "Final"))
          => (input_tokens = 0 /\ output_tokens = 0))
    /\ [][(TurnEnds /\ ~HasKind(consumed', "Final"))
          => (tokens_line' = ZERO_USAGE /\ usage_lines' = usage_lines + 1)]_vars

\* the second turn is under way after a turn that printed 10 in / 5 out
C15_Witness ==
    /\ pc = "stream"
    /\ usage_lines = 1
    /\ Len(engine_calls) = 2
    /\ tokens_line = << << "1", "0" >>, << "5" >> >>
    /\ consumed = << [kind |-> "Text", text |-> HELLO] >>
    /\ input_tokens = 0
    /\ output_tokens = 0

\* C16: a final-usage event leaves the loop consuming: an item taken after it
\* is handled like any other (text is echoed and accumulated in arrival order,
\* a later final-usage event replaces the captured numbers), and the usage
\* line of the turn shows the last final-usage event consumed.
C16_FinalDoesNotEndStream ==
    /\ [][(Len(consumed') = Len(consumed) + 1
           /\ consumed'[Len(consumed')].kind = "Final")
          => (pc' = pc /\ history' = history /\ usage_lines' = usage_lines)]_vars
    /\ [][(HasKind(consumed, "Final") /\ Len(consumed') = Len(consumed) + 1
           /\ pc' = "stream")
          => LET ev == consumed'[Len(consumed')]
             IN  /\ ev.kind = "Text" =>
                       /\ response_text' = response_text \o ev.text
                       /\ displayed' = displayed \o ev.text
                 /\ ev.kind = "Final" =>
                       /\ input_tokens' = ev.usage.input_tokens
                       /\ output_tokens' = ev.usage.output_tokens]_vars
    /\ [][(TurnEnds /\ HasKind(consumed', "Final"))
          => /\ NumberShown(tokens_line'[1]) = LastUsage(consumed').input_tokens
             /\ NumberShown(tokens_line'[2]) = LastUsage(consumed').output_tokens
             /\ response_text = TextOf(consumed')]_vars

C16_Witness ==
    /\ pc = "prompt"
    /\ consumed = << [kind |-> "Final",
                      usage |-> [input_tokens |-> 10, output_tokens |-> 5]],
                     [kind |-> "Text", text |-> HELLO],
                     [kind |-> "Final",
                      usage |-> [input_tokens |-> 1234, output_tokens |-> 1000000]] >>
    /\ tokens_line = << << "1", ",", "2", "3", "4" >>,
                        << "1", ",", "0", "0", "0", ",", "0", "0", "0" >> >>
    /\ history = << user(<< "h", "i" >>), assistant(HELLO) >>

\* C18: a line that is empty after trimming starts no engine call, prints no
\* usage line, leaves the history as it was and takes the loop back to the
\* prompt.
C18_BlankLineIsSkipped ==
    [][(pc = "read" /\ raw' \notin { EOF, READ_ERROR } /\ trim(raw') = << >>)
       => /\ pc' = "prompt"
          /\ exit' = "running"
          /\ engine_calls' = engine_calls
          /\ usage_lines' = usage_lines
          /\ tokens_line' = tokens_line
          /\ history' = history]_vars

C18_Witness ==
    /\ pc = "prompt"
    /\ raw = << " ", "\t", "\n" >>
    /\ input = << >>
    /\ Len(history) = 2
    /\ usage_lines = 1
    /\ Len(engine_calls) = 1

C19_Claim ==
    ~(rpc \in { "waiting", "warned" } /\ child = "blocked")

RECURSIVE TurnsRecorded(_)
\* what the first k finished turns should have left in the history
TurnsRecorded(k) ==
    IF k = 0 THEN << >>
    ELSE TurnsRecorded(k - 1)
         \o << user(engine_calls[k].prompt) >>
         \o (IF turn_texts[k] # << >> THEN << assistant(turn_texts[k]) >> ELSE << >>)

\* C20: every assistant entry of the history has non-empty text and comes
\* right after a user entry, so no two assistant entries are adjacent; and
\* the history is, turn by turn, the user entry followed by an assistant entry
\* exactly when the turn's stream delivered text, so two user entries are
\* adjacent exactly where a turn delivered none.
C20_HistoryShape ==
    /\ \A i \in 1..Len(history) :
          history[i].role = "assistant" =>
             /\ history[i].text # << >>
             /\ i > 1
             /\ history[i - 1].role = "user"
    /\ \A i \in 1..Len(history) : history[i].role \in { "user", "assistant" }
    /\ history = TurnsRecorded(Len(turn_texts))

C20_Witness ==
    /\ pc = "prompt"
    /\ turn_texts = << << >>, HELLO >>
    /\ history = << user(<< "h", "i" >>), user(<< "h", "i" >>), assistant(HELLO) >>

====
